---- MODULE Spec2Model ----
(***************************************************************************)
(* Model of src/main.py: the /api/features aggregator, its four cached and *)
(* rate limited source adapters, the sliding window RateLimiter and the    *)
(* coordinate quantizer.                                                   *)
(*                                                                         *)
(* Conventions                                                             *)
(*   - Python None is the empty tuple, a number n in a JSON value is <<n>>,*)
(*     so that "null" and "0" are different values of one kind.            *)
(*   - A dict is a function on its keys; {} is the function on no key.     *)
(*   - A str that the code slices or parses is a tuple of characters.      *)
(*   - Coordinates are integers counting 1e-4 degrees.                     *)
(*   - Time is an integer number of ticks, TicksPerSec ticks a second.     *)
(***************************************************************************)
EXTENDS Integers, Sequences, FiniteSets, TLC

VARIABLES
    now,        \* time.time(), in ticks
    limiter,    \* RateLimiter._timestamps of the four module level limiters
    cache,      \* the lru_cache of each adapter, entries in recency order
    pc,         \* where the request being served stands in api_features
    req,        \* the query parameters of the last request
    key,        \* (lat_k, lon_k)
    geo,        \* local geo of api_features
    census,     \* local census
    poi,        \* local poi
    crime,      \* local crime
    transit,    \* local transit
    notes,      \* local notes
    step,       \* 0: at the cache wrapper; k > 0: in the body, before HTTP call k
    acc,        \* values the body has computed so far
    response,   \* what the last request returned to its caller
    nreq,       \* requests served so far
    log,        \* history: what the current request did, in order; of a
                \* wait() also the time it registered, of an HTTP call which
                \* call of the body it is and whether request_json returned
    ret,        \* history: how each adapter call of the current request ended
    hist,       \* history: per adapter and cache key, how each call ended
    lut,        \* the limiter whose wait() is called directly
    acquired,   \* history: the timestamps wait() registered on it, in order
    tpc,        \* per thread: where it stands in wait()
    tnow,       \* per thread: local now of wait()
    tkept,      \* per thread: the filtered list, built and not yet assigned
    twake,      \* per thread: the time its time.sleep ends
    arg,        \* the arguments of a function called on its own
    out         \* the values that function returned, in order

reqVars == <<pc, req, key, geo, census, poi, crime, transit, notes, step, acc,
             response, nreq, log, ret, hist>>
limVars == <<lut, acquired, tpc, tnow, tkept, twake>>
funVars == <<arg, out>>
vars == <<now, limiter, cache, pc, req, key, geo, census, poi, crime, transit,
          notes, step, acc, response, nreq, log, ret, hist,
          lut, acquired, tpc, tnow, tkept, twake, arg, out>>

----------------------------------------------------------------------------
(* Bounds of the model *)

MaxRequests == 2
MaxTime == 4
MaxLag == 1
MaxWaits == 7
TicksPerSec == 2

----------------------------------------------------------------------------
(* Values *)

None == << >>
Num(n) == <<n>>
EmptyDict == << >>

Sources == {"census_geo", "census_acs", "poi", "crime"}

Min(a, b) == IF a < b THEN a ELSE b
Max(a, b) == IF a > b THEN a ELSE b

----------------------------------------------------------------------------
(* Python values and built-ins the code relies on *)

\* d.get(k): the value under k, None when k is missing
Get(d, k) == IF k \in DOMAIN d THEN d[k] ELSE None

\* truth value of a dict or list (None, {} and [] are false)
FalsyDict(v) == DOMAIN v = {}

\* truth value of a number or None (None and 0 are false)
FalsyNum(v) == v = << >> \/ v = <<0>>

\* x or y, x a dict, a list or None
OrDict(x, y) == IF FalsyDict(x) THEN y ELSE x

\* x or y, x a number or None
OrNum(x, y) == IF FalsyNum(x) THEN y ELSE x

\* s[:n]
Slice(s, n) == SubSeq(s, 1, Min(n, Len(s)))

DigitChars == <<"0", "1", "2", "3", "4", "5", "6", "7", "8", "9">>

DigitOf(c) == CHOOSE d \in 0..9 : DigitChars[d + 1] = c

RECURSIVE Dec(_)
\* str(n) of a natural number
Dec(n) == IF n < 10 THEN <<DigitChars[n + 1]>>
          ELSE Dec(n \div 10) \o <<DigitChars[(n % 10) + 1]>>

IsDigits(s) == Len(s) > 0 /\ \A i \in 1..Len(s) : \E d \in 1..10 : DigitChars[d] = s[i]

RECURSIVE DigitsValue(_)
DigitsValue(s) == IF Len(s) = 0 THEN 0
                  ELSE 10 * DigitsValue(SubSeq(s, 1, Len(s) - 1)) + DigitOf(s[Len(s)])

\* int(x) of a str: [ok, val]; not ok stands for the ValueError or TypeError
IntOfStr(x) ==
    IF IsDigits(x) THEN [ok |-> TRUE, val |-> DigitsValue(x)]
    ELSE IF Len(x) > 1 /\ x[1] = "-" /\ IsDigits(Tail(x))
         THEN [ok |-> TRUE, val |-> 0 - DigitsValue(Tail(x))]
    ELSE IF Len(x) > 1 /\ x[1] = "+" /\ IsDigits(Tail(x))
         THEN [ok |-> TRUE, val |-> DigitsValue(Tail(x))]
    ELSE [ok |-> FALSE, val |-> 0]

----------------------------------------------------------------------------
(* Results of a call: a returned value or a raised exception *)

Return(v) == [ok |-> TRUE, val |-> v, exc |-> [type |-> "", msg |-> << >>]]
Raise(t, m) == [ok |-> FALSE, val |-> None, exc |-> [type |-> t, msg |-> m]]

ApiError(m) == Raise("ApiError", m)

----------------------------------------------------------------------------
(* request_json: the outbound HTTP call, after the limiter *)

TextHTTP == <<"H", "T", "T", "P", " ">>
TextColon == <<":", " ">>
TextNonJson == <<"N", "o", "n", "-", "J", "S", "O", "N", " ", "r", "e", "s", "p", "o", "n", "s", "e", ":", " ">>
TextBody == <<" ", "|", " ", "b", "o", "d", "y", "=">>
TextDecodeError == <<"E", "x", "p", "e", "c", "t", "i", "n", "g", " ", "v", "a", "l", "u", "e">>
TextBusy == <<"b", "u", "s", "y">>
TextHtml == <<"<", "h", "t", "m", "l", ">">>

\* what requests.request can do: fail in transport, or answer with a status,
\* a text and, when the text is JSON, the decoded data
Transport == [kind |-> "transport", status |-> 0, text |-> << >>, data |-> << >>]
Status503 == [kind |-> "http", status |-> 503, text |-> TextBusy, data |-> << >>]
NotJson == [kind |-> "nonjson", status |-> 200, text |-> TextHtml, data |-> << >>]
Json(d) == [kind |-> "json", status |-> 200, text |-> << >>, data |-> d]

request_json(resp) ==
    IF resp.kind = "transport" THEN Raise("Timeout", << >>)
    ELSE IF resp.status >= 400
         THEN ApiError(TextHTTP \o Dec(resp.status) \o TextColon \o Slice(resp.text, 200))
    ELSE IF resp.kind = "nonjson"
         THEN ApiError(TextNonJson \o Slice(TextDecodeError, 120)
                       \o TextBody \o Slice(resp.text, 200))
    ELSE Return(resp.data)

----------------------------------------------------------------------------
(* safe_call *)

\* the note without the exception's class name: str(e)[:180]
NoteOf_message_only(e) == Slice(e.msg, 180)

\* f"{type(e).__name__}: {str(e)[:180]}"
NoteOf(e) == <<e.type>> \o TextColon \o Slice(e.msg, 180)

\* the classes of the exceptions of the model: all derive from Exception
ExceptionTypes == {"ApiError", "Timeout", "IndexError", "KeyError"}

\* safe_call with "except ApiError" in place of "except Exception"
safe_call_only_ApiError(result, default) ==
    IF result.ok THEN [value |-> result.val, note |-> None, propagates |-> FALSE]
    ELSE IF result.exc.type = "ApiError"
         THEN [value |-> default, note |-> NoteOf(result.exc), propagates |-> FALSE]
    ELSE [value |-> default, note |-> None, propagates |-> TRUE]

\* (value, note); note None means success. An exception that the except
\* clause does not name leaves safe_call, and api_features with it.
safe_call(result, default) ==
    IF result.ok THEN [value |-> result.val, note |-> None, propagates |-> FALSE]
    ELSE IF result.exc.type \in ExceptionTypes
         THEN [value |-> default, note |-> NoteOf(result.exc), propagates |-> FALSE]
    ELSE [value |-> default, note |-> None, propagates |-> TRUE]

\* if note: notes[name] = note
Noted(ns, name, note) == IF note # << >> THEN (name :> note) @@ ns ELSE ns


----------------------------------------------------------------------------
(* RateLimiter *)

period_sec == 1

\* calls and period_sec of _census_limiter, _acs_limiter, _overpass_limiter
\* and _crime_limiter
LimiterCalls == [census_geo |-> 8, census_acs |-> 8, poi |-> 2, crime |-> 6]
LimiterPeriod == [s \in Sources |-> period_sec * TicksPerSec]

\* [t for t in self._timestamps if now - t < self.period_sec]
Kept(ts, t, period) == SelectSeq(ts, LAMBDA x : t - x < period)

\* the capacity test with > in place of >=
AtCapacity_late(ts, calls) == Len(ts) > calls

\* len(self._timestamps) >= self.calls
AtCapacity(ts, calls) == Len(ts) >= calls

\* a sleep of one whole period whatever the age of the oldest timestamp
SleepFor_whole_period(ts, t, period) == period

\* self.period_sec - (now - self._timestamps[0])
SleepFor(ts, t, period) == period - (t - ts[1])

\* a wait() that returns at once and registers nothing
wait_without_slot(ts, calls, period, t, lag) == [ts |-> ts, now |-> t, slept |-> 0]

\* RateLimiter.wait() entered at time t: the list it leaves and the time at
\* which it registers its timestamp. lag is the time that passes beyond what
\* the code asks for (time.sleep may take longer, the thread may be delayed).
wait(ts, calls, period, t, lag) ==
    LET kept == Kept(ts, t, period)
        sleep_for == IF AtCapacity(kept, calls) THEN SleepFor(kept, t, period) ELSE 0
        woke == t + Max(sleep_for, 0) + lag
    IN  [ts |-> Append(kept, woke), now |-> woke, slept |-> Max(sleep_for, 0)]

----------------------------------------------------------------------------
(* _round_key *)

\* The coordinates x / 10^4 whose float lies above (1) or below (-1) the
\* decimal x / 10^4, for the coordinates of the model that end in 5; the float
\* of no other coordinate of the model is an exact tie of round(., 3).
FloatError(x) ==
    IF x \in {392905, -766125} THEN 1
    ELSE IF x \in {392895, 392915, -766135, -766115} THEN -1
    ELSE 0

\* rounding that always moves up to the next multiple, also from a multiple
round_next_cell(x, ndigits) ==
    LET grid == 10 ^ (4 - ndigits) IN grid * ((x \div grid) + 1)

\* rounding down: the digits after ndigits are cut off
round_floor(x, ndigits) ==
    LET grid == 10 ^ (4 - ndigits) IN grid * (x \div grid)

\* round(x, ndigits) of a float: the float's exact value is rounded to the
\* nearest multiple of 10^-ndigits, an exact tie to the even one
round(x, ndigits) ==
    LET grid == 10 ^ (4 - ndigits)
        q == x \div grid
        r == x % grid
    IN  IF 2 * r < grid THEN grid * q
        ELSE IF 2 * r > grid THEN grid * (q + 1)
        ELSE IF FloatError(x) > 0 THEN grid * (q + 1)
        ELSE IF FloatError(x) < 0 THEN grid * q
        ELSE IF q % 2 = 0 THEN grid * q ELSE grid * (q + 1)

_round_key(lat, lon, ndigits) == <<round(lat, ndigits), round(lon, ndigits)>>

----------------------------------------------------------------------------
(* lru_cache(maxsize=20000): entries [key, val], least recently used first *)

maxsize == 20000

\* a wrapper that never finds its key
lru_hit_never(c, k) == FALSE

lru_hit(c, k) == \E i \in 1..Len(c) : c[i].key = k

lru_index(c, k) == CHOOSE i \in 1..Len(c) : c[i].key = k

lru_value(c, k) == c[lru_index(c, k)].val

\* a hit makes the entry the most recently used
lru_touch(c, k) ==
    LET i == lru_index(c, k)
    IN  SubSeq(c, 1, i - 1) \o SubSeq(c, i + 1, Len(c)) \o <<c[i]>>

\* a wrapper that stores nothing
lru_store_nothing(c, k, v) == c

\* a wrapper that stores a result only if it is truthy
lru_store_truthy(c, k, v) ==
    IF DOMAIN v = {} THEN c ELSE Append(c, [key |-> k, val |-> v])

\* a wrapper with room for one entry: the new one displaces what was stored
lru_store_single(c, k, v) == <<[key |-> k, val |-> v]>>

\* a returned value is stored, the least recently used entry making room
lru_store(c, k, v) ==
    Append(IF Len(c) >= maxsize THEN Tail(c) ELSE c, [key |-> k, val |-> v])

----------------------------------------------------------------------------
(* The upstream services: what each outbound call may be answered *)

GeoFound ==
    [result |-> [geographies |->
        ("Census Tracts" :> <<[TRACT |-> <<"040100">>]>>)
        @@ ("Counties" :> <<[COUNTY |-> <<"510">>]>>)
        @@ ("States" :> <<[STATE |-> <<"24">>]>>)]]

\* a point the geocoder places in no tract
GeoNowhere ==
    [result |-> [geographies |->
        ("Census Tracts" :> << >>) @@ ("Counties" :> << >>) @@ ("States" :> << >>)]]

AcsHeader == <<"B19013_001E", "B01003_001E", "state", "county", "tract">>

\* the income is suppressed upstream
AcsRowsNoIncome == << AcsHeader,
                      <<<<"-">>, <<"1", "2", "0", "0">>, <<"2", "4">>, <<"5", "1", "0">>, <<"0", "4", "0", "1", "0", "0">>>> >>

\* the header row alone
AcsNoRow == << AcsHeader >>

\* the sub-queries issued with the first two in the other order
PoiCategories_bars_first == <<"bars", "restaurants", "cafes", "shops">>

\* the categories in the order poi_counts queries them
PoiCategories == <<"restaurants", "bars", "cafes", "shops">>

PoiElements == [restaurants |-> [elements |-> <<[id |-> 11], [id |-> 12]>>],
                bars |-> [elements |-> << >>],
                cafes |-> [elements |-> <<[id |-> 31]>>],
                shops |-> [version |-> <<"0.6">>]]

CrimeTotal == [count |-> <<3>>]

CrimeGroups ==
    [features |-> << [attributes |-> [CRIME_TYPE |-> <<"ROBBERY">>, ct |-> <<2>>]],
                     [attributes |-> [CRIME_TYPE |-> <<"LARCENY">>, ct |-> <<1>>]] >>]

\* the JSON bodies a call of the adapter src, its n-th, may be answered
Bodies(src, n) ==
    CASE src = "census_geo" -> {GeoFound, GeoNowhere}
      [] src = "census_acs" -> {AcsRowsNoIncome, AcsNoRow}
      [] src = "poi" -> {PoiElements[PoiCategories[n]]}
      [] src = "crime" -> IF n = 1 THEN {CrimeTotal} ELSE {CrimeGroups}

\* the ways a call of the adapter src, its n-th, may fail
Failing(src, n) ==
    CASE src = "census_geo" -> {Status503}
      [] src = "census_acs" -> {NotJson}
      [] src = "poi" -> IF n = 1 THEN {Status503} ELSE {Transport}
      [] src = "crime" -> IF n = 1 THEN {Transport} ELSE {Status503}

Answers(src, n) == Failing(src, n) \cup {Json(d) : d \in Bodies(src, n)}


----------------------------------------------------------------------------
(* The adapters' bodies, after request_json has returned data *)

\* geos[name][0][field] is there
HasFirst(geos, name, field) ==
    /\ name \in DOMAIN geos
    /\ Len(geos[name]) > 0
    /\ field \in DOMAIN geos[name][1]

census_geographies_parse(data) ==
    LET geos == OrDict(Get(OrDict(Get(data, "result"), EmptyDict), "geographies"), EmptyDict)
    IN  IF /\ HasFirst(geos, "Census Tracts", "TRACT")
           /\ HasFirst(geos, "Counties", "COUNTY")
           /\ HasFirst(geos, "States", "STATE")
        THEN [state_fips |-> geos["States"][1]["STATE"],
              county_fips |-> geos["Counties"][1]["COUNTY"],
              tract |-> geos["Census Tracts"][1]["TRACT"]]
        ELSE EmptyDict

\* dict(zip(cols, vals)): a later pair of the same column wins
ZipDict(cols, vals) ==
    LET n == Min(Len(cols), Len(vals))
    IN  [c \in {cols[i] : i \in 1..n} |->
            vals[CHOOSE i \in 1..n : cols[i] = c /\ \A j \in (i + 1)..n : cols[j] # c]]

to_int(x) == LET p == IntOfStr(x) IN IF p.ok THEN Num(p.val) ELSE None

acs_features_parse(data) ==
    IF Len(data) < 2 THEN Raise("IndexError", <<"l", "i", "s", "t", " ", "i", "n", "d", "e", "x", " ", "o", "u", "t", " ", "o", "f", " ", "r", "a", "n", "g", "e">>)
    ELSE LET row == ZipDict(data[1], data[2])
         IN  Return([population |-> to_int(Get(row, "B01003_001E")),
                     median_household_income |-> to_int(Get(row, "B19013_001E"))])

\* len(data.get("elements", []))
count_for(data) == IF "elements" \in DOMAIN data THEN Len(data["elements"]) ELSE 0

poi_counts_result(counts) ==
    [restaurants |-> Num(counts[1]), bars |-> Num(counts[2]),
     cafes |-> Num(counts[3]), shops |-> Num(counts[4])]

\* int(total_data.get("count") or 0)
crime_total(data) == OrNum(Get(data, "count"), <<0>>)[1]

\* a.get("CRIME_TYPE") or "UNKNOWN"
crime_label(a) ==
    LET t == Get(a, "CRIME_TYPE")
    IN  IF t = << >> \/ t = <<"">> THEN "UNKNOWN" ELSE t[1]

RECURSIVE crime_by_type(_, _)
\* for f in feats: by_type[k] = int(a.get("ct") or 0)
crime_by_type(feats, by_type) ==
    IF Len(feats) = 0 THEN by_type
    ELSE LET a == OrDict(Get(feats[1], "attributes"), EmptyDict)
             k == crime_label(a)
             n == OrNum(Get(a, "ct"), <<0>>)[1]
         IN  crime_by_type(Tail(feats), (k :> Num(n)) @@ by_type)

crime_counts_result(total, data) ==
    [total_last_3mo |-> Num(total),
     by_type |-> crime_by_type(OrDict(Get(data, "features"), << >>), EmptyDict)]

\* HTTP calls a body makes when none fails
HttpCalls == [census_geo |-> 1, census_acs |-> 1, poi |-> 4, crime |-> 2]

\* the body of adapter src after its n-th call returned data, values so far
\* in acc: the values it now holds and, when it ends here, its result
Body(src, n, data, a) ==
    CASE src = "census_geo" ->
            [done |-> TRUE, acc |-> a, result |-> Return(census_geographies_parse(data))]
      [] src = "census_acs" ->
            [done |-> TRUE, acc |-> a, result |-> acs_features_parse(data)]
      [] src = "poi" ->
            LET counts == Append(a, count_for(data))
            IN  IF n < HttpCalls[src]
                THEN [done |-> FALSE, acc |-> counts, result |-> Return(None)]
                ELSE [done |-> TRUE, acc |-> counts,
                      result |-> Return(poi_counts_result(counts))]
      [] src = "crime" ->
            IF n < HttpCalls[src]
            THEN [done |-> FALSE, acc |-> <<crime_total(data)>>, result |-> Return(None)]
            ELSE [done |-> TRUE, acc |-> a,
                  result |-> Return(crime_counts_result(a[1], data))]

transit_stub ==
    [nearest_stop_m |-> None, stops_within_radius |-> None,
     note |-> <<"GTFS not implemented yet">>]

----------------------------------------------------------------------------
(* api_features *)

ge == 100
le == 2000

\* the bounds taken as exclusive: gt and lt in place of ge and le
ValidRadius_exclusive(radius) == radius > ge /\ radius < le

\* radius: int = Query(500, ge=100, le=2000)
ValidRadius(radius) == radius >= ge /\ radius <= le

\* a crime default that reports a count of zero
crime_default_zero == [total_last_3mo |-> Num(0), by_type |-> EmptyDict]

poi_default == [restaurants |-> None, bars |-> None, cafes |-> None, shops |-> None]
crime_default == [total_last_3mo |-> None, by_type |-> EmptyDict]
transit_default == [nearest_stop_m |-> None, stops_within_radius |-> None]

Default(src) ==
    CASE src = "census_geo" -> EmptyDict
      [] src = "census_acs" -> EmptyDict
      [] src = "poi" -> poi_default
      [] src = "crime" -> crime_default

\* the Demographics call made whatever geo is
AfterGeo_unconditional(g) == "census_acs"

\* if geo: the Demographics call is made, else POI is next
AfterGeo(g) == IF ~FalsyDict(g) THEN "census_acs" ELSE "poi"

\* census.update(acs)
Update(d, e) == e @@ d

\* the cache key of each adapter's call
KeyOf(src) ==
    CASE src = "census_geo" -> <<key[1], key[2]>>
      [] src = "census_acs" -> <<geo["state_fips"], geo["county_fips"], geo["tract"]>>
      [] src = "poi" -> <<key[1], key[2], req.radius>>
      [] src = "crime" -> <<key[1], key[2], req.radius>>

FeatureBundle ==
    [lat |-> req.lat, lon |-> req.lon, radius_m |-> req.radius,
     census |-> census, poi |-> poi, crime |-> crime, transit |-> transit,
     notes |-> notes]


----------------------------------------------------------------------------
(* Requests of the model *)

\* 39.2904, -76.6122 lies in the grid cell 39.290, -76.612
Lats == {392904}
Lons == {-766122}
Radii == {ge - 1, ge, le, le + 1}

NoResponse == [status |-> 0, body |-> EmptyDict]

Threads == {1, 2}

\* no thread is inside wait()
InitThreads ==
    /\ acquired = << >>
    /\ tpc = [t \in Threads |-> "out"]
    /\ tnow = [t \in Threads |-> 0]
    /\ tkept = [t \in Threads |-> << >>]
    /\ twake = [t \in Threads |-> 0]

\* no function is called on its own
NoFun ==
    /\ arg = << >>
    /\ out = << >>

\* the module is imported: limiters and caches are empty, no request is served
InitRequest ==
    /\ cache = [s \in Sources |-> << >>]
    /\ pc = "idle"
    /\ req = [lat |-> 0, lon |-> 0, radius |-> 0]
    /\ key = <<0, 0>>
    /\ geo = EmptyDict
    /\ census = EmptyDict
    /\ poi = EmptyDict
    /\ crime = EmptyDict
    /\ transit = EmptyDict
    /\ notes = EmptyDict
    /\ step = 0
    /\ acc = << >>
    /\ response = NoResponse
    /\ nreq = 0
    /\ log = << >>
    /\ ret = << >>
    /\ hist = [s \in Sources |-> << >>]

Init ==
    /\ now = 0
    /\ limiter = [s \in Sources |-> << >>]
    /\ InitRequest
    /\ InitThreads
    /\ lut = "poi"
    /\ NoFun

\* a request whose radius the Query declaration refuses: the function body
\* is not entered
Reject(lat, lon, radius) ==
    /\ pc = "idle"
    /\ nreq < MaxRequests
    /\ ~ValidRadius(radius)
    /\ req' = [lat |-> lat, lon |-> lon, radius |-> radius]
    /\ response' = [status |-> 422, body |-> EmptyDict]
    /\ nreq' = nreq + 1
    /\ log' = << >>
    /\ ret' = << >>
    /\ UNCHANGED <<now, limiter, cache, pc, key, geo, census, poi, crime, transit,
                   notes, step, acc, hist>>
    /\ UNCHANGED <<limVars, funVars>>

\* api_features is entered: lat_k, lon_k = _round_key(lat, lon, ndigits=3)
Start(lat, lon, radius) ==
    /\ pc = "idle"
    /\ nreq < MaxRequests
    /\ ValidRadius(radius)
    /\ req' = [lat |-> lat, lon |-> lon, radius |-> radius]
    /\ key' = _round_key(lat, lon, 3)
    /\ notes' = EmptyDict
    /\ geo' = EmptyDict
    /\ census' = EmptyDict
    /\ poi' = EmptyDict
    /\ crime' = EmptyDict
    /\ transit' = EmptyDict
    /\ step' = 0
    /\ acc' = << >>
    /\ response' = NoResponse
    /\ log' = << >>
    /\ ret' = << >>
    /\ pc' = "census_geo"
    /\ UNCHANGED <<now, limiter, cache, nreq, hist>>
    /\ UNCHANGED <<limVars, funVars>>

\* hist with one more call of key k ending as outcome
Recorded(h, k, outcome) ==
    IF k \in DOMAIN h THEN [h EXCEPT ![k] = Append(@, outcome)]
    ELSE (k :> <<outcome>>) @@ h

\* safe_call returns to api_features, which stores the value and the note;
\* an exception that leaves safe_call ends the request with a server error
Finish(src, result) ==
    LET sc == safe_call(result, Default(src))
    IN  /\ ret' = (src :> result) @@ ret
        /\ step' = 0
        /\ acc' = << >>
        /\ IF sc.propagates
           THEN /\ response' = [status |-> 500, body |-> EmptyDict]
                /\ nreq' = nreq + 1
                /\ pc' = "idle"
                /\ UNCHANGED <<geo, census, poi, crime, notes>>
           ELSE /\ notes' = Noted(notes, src, sc.note)
                /\ UNCHANGED <<response, nreq>>
                /\ CASE src = "census_geo" ->
                            /\ geo' = sc.value
                            /\ census' = sc.value
                            /\ pc' = AfterGeo(sc.value)
                            /\ UNCHANGED <<poi, crime>>
                     [] src = "census_acs" ->
                            /\ census' = Update(census, sc.value)
                            /\ pc' = "poi"
                            /\ UNCHANGED <<geo, poi, crime>>
                     [] src = "poi" ->
                            /\ poi' = sc.value
                            /\ pc' = "crime"
                            /\ UNCHANGED <<geo, census, crime>>
                     [] src = "crime" ->
                            /\ crime' = sc.value
                            /\ pc' = "transit"
                            /\ UNCHANGED <<geo, census, poi>>

\* the lru_cache wrapper of adapter src is called: a hit returns the stored
\* value, a miss enters the body
Call(src) ==
    LET k == KeyOf(src)
        c == cache[src]
    IN  /\ pc = src
        /\ step = 0
        /\ log' = Append(log, [ev |-> "lookup", src |-> src,
                               cached |-> \E i \in 1..Len(c) : c[i].key = k])
        /\ IF lru_hit(c, k)
           THEN /\ cache' = [cache EXCEPT ![src] = lru_touch(c, k)]
                /\ hist' = [hist EXCEPT ![src] = Recorded(@, k, "hit")]
                /\ Finish(src, Return(lru_value(c, k)))
           ELSE /\ step' = 1
                /\ UNCHANGED <<cache, hist, geo, census, poi, crime, notes, acc, ret, pc,
                               response, nreq>>
        /\ UNCHANGED <<now, limiter, req, key, transit>>
        /\ UNCHANGED <<limVars, funVars>>

\* the body of adapter src makes its next call of request_json: the limiter,
\* then the HTTP request, which is answered resp. Only the limiter's sleep
\* takes time here: the upstream answers at once.
Http(src, resp) ==
    LET k == KeyOf(src)
        w == wait(limiter[src], LimiterCalls[src], LimiterPeriod[src], now, 0)
        r == request_json(resp)
        b == Body(src, step, r.val, acc)
    IN  /\ pc = src
        /\ step > 0
        /\ limiter' = [limiter EXCEPT ![src] = w.ts]
        /\ now' = w.now
        /\ log' = log \o <<[ev |-> "wait", src |-> src, cached |-> FALSE, at |-> w.now],
                           [ev |-> "http", src |-> src, cached |-> FALSE,
                            n |-> step, ok |-> r.ok]>>
        /\ IF ~r.ok
           THEN /\ hist' = [hist EXCEPT ![src] = Recorded(@, k, "raise")]
                /\ Finish(src, r)
                /\ UNCHANGED cache
           ELSE IF ~b.done
           THEN /\ step' = step + 1
                /\ acc' = b.acc
                /\ UNCHANGED <<cache, hist, geo, census, poi, crime, notes, ret, pc,
                               response, nreq>>
           ELSE IF ~b.result.ok
           THEN /\ hist' = [hist EXCEPT ![src] = Recorded(@, k, "raise")]
                /\ Finish(src, b.result)
                /\ UNCHANGED cache
           ELSE /\ cache' = [cache EXCEPT ![src] = lru_store(@, k, b.result.val)]
                /\ hist' = [hist EXCEPT ![src] = Recorded(@, k, "ok")]
                /\ Finish(src, b.result)
        /\ UNCHANGED <<req, key, transit>>
        /\ UNCHANGED <<limVars, funVars>>

census_geographies_call == Call("census_geo")

census_geographies_http ==
    /\ pc = "census_geo"
    /\ step > 0
    /\ \E resp \in Answers("census_geo", 1) : Http("census_geo", resp)

\* lambda: acs_features(geo["state_fips"], geo["county_fips"], geo["tract"])
acs_features_call ==
    IF {"state_fips", "county_fips", "tract"} \subseteq DOMAIN geo
    THEN Call("census_acs")
    ELSE /\ pc = "census_acs"
         /\ step = 0
         /\ Finish("census_acs", Raise("KeyError", <<"'", "s", "t", "a", "t", "e", "_", "f", "i", "p", "s", "'">>))
         /\ UNCHANGED <<now, limiter, cache, req, key, transit, log, hist>>
         /\ UNCHANGED <<limVars, funVars>>

acs_features_http ==
    /\ pc = "census_acs"
    /\ step > 0
    /\ \E resp \in Answers("census_acs", 1) : Http("census_acs", resp)

poi_counts_call == Call("poi")

poi_counts_http ==
    /\ pc = "poi"
    /\ step > 0
    /\ \E resp \in Answers("poi", step) : Http("poi", resp)

crime_counts_call == Call("crime")

crime_counts_http ==
    /\ pc = "crime"
    /\ step > 0
    /\ \E resp \in Answers("crime", step) : Http("crime", resp)

\* safe_call(lambda: transit_stub(lat, lon, radius), ...), after which
\* api_features returns JSONResponse({...})
transit_call ==
    LET sc == safe_call(Return(transit_stub), transit_default)
        ns == Noted(notes, "transit", sc.note)
    IN  /\ pc = "transit"
        /\ transit' = sc.value
        /\ notes' = ns
        /\ response' = [status |-> 200,
                        body |-> [FeatureBundle EXCEPT !.transit = sc.value, !.notes = ns]]
        /\ nreq' = nreq + 1
        /\ pc' = "idle"
        /\ UNCHANGED <<now, limiter, cache, req, key, geo, census, poi, crime, step,
                       acc, log, ret, hist>>
        /\ UNCHANGED <<limVars, funVars>>

Next ==
    \/ \E lat \in Lats, lon \in Lons, radius \in Radii : Reject(lat, lon, radius)
    \/ \E lat \in Lats, lon \in Lons, radius \in Radii : Start(lat, lon, radius)
    \/ census_geographies_call
    \/ census_geographies_http
    \/ acs_features_call
    \/ acs_features_http
    \/ poi_counts_call
    \/ poi_counts_http
    \/ crime_counts_call
    \/ crime_counts_http
    \/ transit_call

Spec == Init /\ [][Next]_vars


----------------------------------------------------------------------------
(* RateLimiter.wait() called directly, by one caller after another *)

\* the limiter under test is _overpass_limiter (2 per second) or
\* _crime_limiter (6 per second); the two Census limiters run the same code
\* with 8 per second
InitLimiter ==
    /\ now = 0
    /\ limiter = [s \in Sources |-> << >>]
    /\ InitRequest
    /\ InitThreads
    /\ lut \in {"poi", "crime"}
    /\ NoFun

\* time passes between two calls
LimiterTick ==
    /\ now < MaxTime
    /\ now' = now + 1
    /\ UNCHANGED <<limiter, cache, reqVars, limVars, funVars>>

\* one call of wait(), from its first line to its return
LimiterWait(lag) ==
    LET w == wait(limiter[lut], LimiterCalls[lut], LimiterPeriod[lut], now, lag)
    IN  /\ Len(acquired) < MaxWaits
        /\ limiter' = [limiter EXCEPT ![lut] = w.ts]
        /\ now' = w.now
        /\ acquired' = Append(acquired, w.now)
        /\ UNCHANGED <<cache, reqVars, lut, tpc, tnow, tkept, twake, funVars>>

NextLimiter ==
    \/ LimiterTick
    \/ \E lag \in 0..MaxLag : LimiterWait(lag)

SpecLimiter == InitLimiter /\ [][NextLimiter]_vars

----------------------------------------------------------------------------
(* RateLimiter.wait() called by the threads that serve concurrent requests: *)
(* api_features is a plain def, which the framework runs in worker threads, *)
(* and wait() takes no lock.                                                *)

MaxThreadWaits == 3

InitThreaded ==
    /\ now = 0
    /\ limiter = [s \in Sources |-> << >>]
    /\ InitRequest
    /\ InitThreads
    /\ lut = "poi"
    /\ NoFun

ThreadTick ==
    /\ now < MaxTime
    /\ now' = now + 1
    /\ UNCHANGED <<limiter, cache, reqVars, limVars, funVars>>

\* now = time.time()
wait_now(t) ==
    /\ tpc[t] = "out"
    /\ Len(acquired) + Cardinality({u \in Threads : tpc[u] # "out"}) < MaxThreadWaits
    /\ tnow' = [tnow EXCEPT ![t] = now]
    /\ tpc' = [tpc EXCEPT ![t] = "filter"]
    /\ UNCHANGED <<now, limiter, cache, reqVars, lut, acquired, tkept, twake, funVars>>

\* [t for t in self._timestamps if now - t < self.period_sec] is built
wait_filter(t) ==
    /\ tpc[t] = "filter"
    /\ tkept' = [tkept EXCEPT ![t] = Kept(limiter[lut], tnow[t], LimiterPeriod[lut])]
    /\ tpc' = [tpc EXCEPT ![t] = "assign"]
    /\ UNCHANGED <<now, limiter, cache, reqVars, lut, acquired, tnow, twake, funVars>>

\* self._timestamps = <the list built>
wait_assign(t) ==
    /\ tpc[t] = "assign"
    /\ limiter' = [limiter EXCEPT ![lut] = tkept[t]]
    /\ tpc' = [tpc EXCEPT ![t] = "test"]
    /\ UNCHANGED <<now, cache, reqVars, lut, acquired, tnow, tkept, twake, funVars>>

\* if len(self._timestamps) >= self.calls: sleep_for = ...
wait_test(t) ==
    /\ tpc[t] = "test"
    /\ IF AtCapacity(limiter[lut], LimiterCalls[lut])
       THEN /\ twake' = [twake EXCEPT ![t] =
                    tnow[t] + Max(SleepFor(limiter[lut], tnow[t], LimiterPeriod[lut]), 0)]
            /\ tpc' = [tpc EXCEPT ![t] = "sleep"]
       ELSE /\ tpc' = [tpc EXCEPT ![t] = "append"]
            /\ UNCHANGED twake
    /\ UNCHANGED <<now, limiter, cache, reqVars, lut, acquired, tnow, tkept, funVars>>

\* time.sleep(sleep_for) returns
wait_sleep(t) ==
    /\ tpc[t] = "sleep"
    /\ now >= twake[t]
    /\ tpc' = [tpc EXCEPT ![t] = "append"]
    /\ UNCHANGED <<now, limiter, cache, reqVars, lut, acquired, tnow, tkept, twake, funVars>>

\* self._timestamps.append(time.time())
wait_append(t) ==
    /\ tpc[t] = "append"
    /\ limiter' = [limiter EXCEPT ![lut] = Append(@, now)]
    /\ acquired' = Append(acquired, now)
    /\ tpc' = [tpc EXCEPT ![t] = "out"]
    /\ UNCHANGED <<now, cache, reqVars, lut, tnow, tkept, twake, funVars>>

NextThreaded ==
    \/ ThreadTick
    \/ \E t \in Threads : wait_now(t)
    \/ \E t \in Threads : wait_filter(t)
    \/ \E t \in Threads : wait_assign(t)
    \/ \E t \in Threads : wait_test(t)
    \/ \E t \in Threads : wait_sleep(t)
    \/ \E t \in Threads : wait_append(t)

SpecThreaded == InitThreaded /\ [][NextThreaded]_vars


----------------------------------------------------------------------------
(* Properties of api_features, checked under Spec *)

Returned(src) == src \in DOMAIN ret /\ ret[src].ok
Raised(src) == src \in DOMAIN ret /\ ~ret[src].ok

\* equality of two dicts whose values are scalars
SameDict(a, b) == DOMAIN a = DOMAIN b /\ \A k \in DOMAIN a : a[k] = b[k]

Answered == response.status = 200
Body200 == response.body

BundleKeys == {"lat", "lon", "radius_m", "census", "poi", "crime", "transit", "notes"}

\* C1: whatever the adapters do, a started request goes on to its end, no
\* exception leaves api_features, and the bundle returned has exactly the
\* eight top-level keys, with lat, lon and radius_m the raw request inputs.
C1_AlwaysAssembled ==
    /\ response.status # 500
    /\ pc # "idle" => ENABLED Next
    /\ Answered =>
        /\ DOMAIN Body200 = BundleKeys
        /\ Body200.lat = req.lat
        /\ Body200.lon = req.lon
        /\ Body200.radius_m = req.radius

\* a bundle returned although Geocode, POI and Crime all raised, for a
\* latitude that is not its own grid key
C1_Witness ==
    /\ Answered
    /\ Raised("census_geo") /\ Raised("poi") /\ Raised("crime")
    /\ Body200.lat # key[1]

\* the census section that the Geocode and Demographics results determine
CensusOf(r) ==
    IF "census_geo" \in DOMAIN r /\ r["census_geo"].ok
    THEN IF "census_acs" \in DOMAIN r /\ r["census_acs"].ok
         THEN r["census_acs"].val @@ r["census_geo"].val
         ELSE r["census_geo"].val
    ELSE EmptyDict

\* C2: a source that raised leaves its own section at the default, with a
\* non-empty note, and every other section is what its own adapter gave,
\* the same whether Crime (or POI) raised or returned.
C2_FailureIsolation ==
    Answered =>
        /\ Raised("crime") =>
            /\ DOMAIN Body200.crime = {"total_last_3mo", "by_type"}
            /\ Body200.crime.total_last_3mo = None
            /\ DOMAIN Body200.crime.by_type = {}
            /\ "crime" \in DOMAIN Body200.notes
            /\ Body200.notes["crime"] # << >>
        /\ Raised("poi") =>
            /\ DOMAIN Body200.poi = {"restaurants", "bars", "cafes", "shops"}
            /\ \A c \in DOMAIN Body200.poi : Body200.poi[c] = None
            /\ "poi" \in DOMAIN Body200.notes
            /\ Body200.notes["poi"] # << >>
        /\ SameDict(Body200.census, CensusOf(ret))
        /\ Returned("poi") => SameDict(Body200.poi, ret["poi"].val)
        /\ Returned("crime") =>
            /\ Body200.crime.total_last_3mo = ret["crime"].val.total_last_3mo
            /\ SameDict(Body200.crime.by_type, ret["crime"].val.by_type)

\* Crime raised while Geocode, Demographics and POI returned
C2_Witness ==
    /\ Answered
    /\ Raised("crime")
    /\ Returned("census_geo") /\ Returned("census_acs") /\ Returned("poi")

\* C3: every bundle has all the keys of each section, null where a value
\* could not be obtained.
C3_FieldPresence ==
    Answered =>
        /\ DOMAIN Body200.census =
              {"state_fips", "county_fips", "tract", "population", "median_household_income"}
        /\ DOMAIN Body200.poi = {"restaurants", "bars", "cafes", "shops"}
        /\ DOMAIN Body200.crime = {"total_last_3mo", "by_type"}
        /\ DOMAIN Body200.transit = {"nearest_stop_m", "stops_within_radius", "note"}

EventsOf(src) == {i \in 1..Len(log) : log[i].src = src}

\* Geocode has ended in this request, raising or with an empty identity
GeoGaveNothing ==
    /\ "census_geo" \in DOMAIN ret
    /\ ret["census_geo"].ok => FalsyDict(ret["census_geo"].val)

\* C4: when Geocode raised or returned an empty identity, Demographics is not
\* invoked (no cache lookup, no limiter slot, no HTTP call), notes has no
\* census_acs, and notes has census_geo exactly if Geocode raised.
C4_DemographicsOnlyAfterGeocode ==
    GeoGaveNothing =>
        /\ pc # "census_acs"
        /\ EventsOf("census_acs") = {}
        /\ "census_acs" \notin DOMAIN ret
        /\ "census_acs" \notin DOMAIN notes
        /\ "census_geo" \in DOMAIN notes <=> Raised("census_geo")
        /\ Answered => "census_acs" \notin DOMAIN Body200.notes

\* a bundle returned after Geocode returned the empty identity
C4_Witness ==
    /\ Answered
    /\ Returned("census_geo")
    /\ FalsyDict(ret["census_geo"].val)
    /\ Returned("poi")

NoteKeys == {"census_geo", "census_acs", "poi", "crime", "transit"}

\* C5: the keys of notes are source names, a source has a note exactly if
\* its adapter was invoked in this request and raised, and a null poi or
\* crime field comes with its note.
C5_NotesExactlyFailures ==
    Answered =>
        /\ DOMAIN Body200.notes \subseteq NoteKeys
        /\ "transit" \notin DOMAIN Body200.notes
        /\ \A s \in Sources : s \in DOMAIN Body200.notes <=> Raised(s)
        /\ (\E c \in DOMAIN Body200.poi : Body200.poi[c] = None)
              => "poi" \in DOMAIN Body200.notes
        /\ Body200.crime.total_last_3mo = None => "crime" \in DOMAIN Body200.notes

\* Crime raised an exception whose message is empty, POI returned
C5_Witness ==
    /\ Answered
    /\ Raised("crime")
    /\ ret["crime"].exc.msg = << >>
    /\ Returned("poi")
    /\ DOMAIN Body200.notes = {"crime"}


\* the calls of one adapter with one key, in order: the body ran ("raise",
\* "ok") or the stored value was returned ("hit")
BodyRan(o) == o \in {"raise", "ok"}

\* C6: for each adapter and key, the body runs on every call up to and
\* including the first that returns without raising and on no call after
\* it; a call that raises stores nothing, so the key is stored exactly if
\* some call returned.
C6_ComputeUntilFirstSuccess ==
    \A s \in Sources : \A k \in DOMAIN hist[s] :
        LET h == hist[s][k]
        IN  /\ \A i, j \in 1..Len(h) : (i < j /\ h[i] = "ok") => ~BodyRan(h[j])
            /\ \A j \in 1..Len(h) :
                  ~BodyRan(h[j]) => \E i \in 1..(j - 1) : h[i] = "ok"
            /\ (\E i \in 1..Len(cache[s]) : cache[s][i].key = k)
                  <=> (\E i \in 1..Len(h) : h[i] = "ok")
            /\ Cardinality({i \in 1..Len(cache[s]) : cache[s][i].key = k}) <= 1

\* one key whose first call raised and whose second ran the body again and
\* returned, and one key whose second call was served from the cache
C6_Witness ==
    /\ \E k \in DOMAIN hist["poi"] : hist["poi"][k] = <<"raise", "ok">>
    /\ \E k \in DOMAIN hist["crime"] : hist["crime"][k] = <<"ok", "hit">>

\* C9 as stated: on every invocation, hit or miss, a slot of the source's
\* limiter is acquired before its cache is consulted.
C9_LimiterBeforeCache ==
    \A i \in 1..Len(log) :
        log[i].ev = "lookup" =>
            \E j \in 1..(i - 1) : log[j].ev = "wait" /\ log[j].src = log[i].src

\* C9, amended: every invocation consults its source's cache first; on a
\* hit it acquires no limiter slot and makes no HTTP call; on a miss each
\* HTTP call is made right after acquiring a slot of the source's limiter.
C9_CacheBeforeLimiter ==
    \A s \in Sources :
        LET e == EventsOf(s)
        IN  /\ \A i \in e :
                  log[i].ev # "lookup" =>
                      \E j \in e : j < i /\ log[j].ev = "lookup" /\ ~log[j].cached
            /\ \A i \in e :
                  (log[i].ev = "lookup" /\ log[i].cached) =>
                      \A j \in e : log[j].ev = "lookup"
            /\ \A i \in e :
                  log[i].ev = "http" =>
                      i > 1 /\ log[i - 1].ev = "wait" /\ log[i - 1].src = s
            /\ \A i \in e :
                  log[i].ev = "wait" =>
                      i < Len(log) /\ log[i + 1].ev = "http" /\ log[i + 1].src = s
            /\ Cardinality({i \in e : log[i].ev = "wait"}) <= HttpCalls[s]

\* a request that found its Geocode answer stored and made the four POI calls
C9_Witness ==
    /\ Answered
    /\ \E i \in EventsOf("census_geo") : log[i].ev = "lookup" /\ log[i].cached
    /\ Cardinality({i \in EventsOf("poi") : log[i].ev = "wait"}) = 4

\* C10: a request whose radius is below 100 or above 2000 is refused with
\* every limiter and cache, the clock and the call history unchanged and
\* nothing done on its behalf; one that enters api_features has a radius
\* from 100 to 2000.
C10_RadiusPrecondition ==
    [][ /\ (nreq' = nreq + 1 /\ response'.status = 422) =>
              /\ req'.radius < 100 \/ req'.radius > 2000
              /\ UNCHANGED <<limiter, cache, now, hist, pc>>
              /\ log' = << >>
        /\ response'.status = 422 => (req'.radius < 100 \/ req'.radius > 2000)
        /\ (pc = "idle" /\ pc' # "idle") =>
              (req'.radius >= 100 /\ req'.radius <= 2000)
        /\ (pc = "idle" /\ nreq < MaxRequests) =>
              /\ ENABLED (\E lat \in Lats, lon \in Lons : Start(lat, lon, 100))
              /\ ENABLED (\E lat \in Lats, lon \in Lons : Start(lat, lon, 2000))
      ]_vars

\* a request with radius 2001 refused after an earlier one filled the caches
C10_Witness ==
    /\ response.status = 422
    /\ req.radius = 2001
    /\ Len(cache["poi"]) > 0
    /\ Len(limiter["poi"]) > 0

----------------------------------------------------------------------------
(* Properties of RateLimiter.wait *)

\* the timestamps registered in the window of length period that ends at t
InWindow(t, period) == {i \in 1..Len(acquired) : t - acquired[i] < period /\ acquired[i] <= t}

\* C7: with one caller after another, no window of length T holds more
\* than N registered timestamps: acquisition i + N registers at least T
\* after acquisition i.
C7_SlidingWindowCap ==
    LET N == LimiterCalls[lut]
        T == LimiterPeriod[lut]
    IN  /\ \A i \in 1..Len(acquired) :
              i + N <= Len(acquired) => acquired[i + N] - acquired[i] >= T
        /\ \A t \in 0..now : Cardinality(InWindow(t, T)) <= N

\* three calls of the 2 per second limiter, the third registering exactly
\* one period after the first
C7_Witness ==
    /\ lut = "poi"
    /\ Len(acquired) >= 3
    /\ acquired[2] = acquired[1]
    /\ acquired[3] = acquired[1] + LimiterPeriod[lut]

\* C8: with the threads' steps interleaved, still no window of length T
\* holds more than N acquisitions, and no registered timestamp that is
\* less than T old is missing from the limiter's list.
C8_ExclusiveAccess ==
    LET N == LimiterCalls[lut]
        T == LimiterPeriod[lut]
    IN  /\ \A t \in 0..now : Cardinality(InWindow(t, T)) <= N
        /\ \A i \in InWindow(now, T) :
              Cardinality({j \in 1..Len(limiter[lut]) : limiter[lut][j] = acquired[i]})
                  >= Cardinality({j \in InWindow(now, T) : acquired[j] = acquired[i]})

----------------------------------------------------------------------------
(* Further properties of api_features, checked under Spec *)

\* the HTTP calls adapter src made in the current request, in order
HttpOf(src) == SelectSeq(log, LAMBDA e : e.ev = "http" /\ e.src = src)

Stored(src, k) == \E i \in 1..Len(cache[src]) : cache[src][i].key = k

\* what the upstream holds: 2 restaurants, no bar, 1 cafe, and an answer
\* without elements for shops
UpstreamPoi ==
    [restaurants |-> Num(2), bars |-> Num(0), cafes |-> Num(1), shops |-> Num(0)]

AllNull(d) == \A c \in DOMAIN d : d[c] = None
AllCounts(d) == \A c \in DOMAIN d : d[c] # None /\ d[c][1] >= 0

\* C14: the sub-queries of a poi_counts call are issued in the order
\* restaurants, bars, cafes, shops, none after one that failed; a call in
\* which one failed raises and stores nothing, so the poi section is four
\* counts or four nulls, and a later call starts again at the first.
C14_PoiAllOrNothing ==
    LET h == HttpOf("poi")
        k == <<key[1], key[2], req.radius>>
    IN  /\ Len(h) <= 4
        /\ \A i \in 1..Len(h) : h[i].n = i /\ (i < Len(h) => h[i].ok)
        /\ (pc = "poi" /\ step > 0) => step = Len(h) + 1
        /\ Raised("poi") =>
              /\ Len(h) > 0 /\ ~h[Len(h)].ok
              /\ ~Stored("poi", k)
              /\ poi = poi_default
              /\ "poi" \in DOMAIN notes
        /\ Returned("poi") =>
              /\ Len(h) \in {0, 4}
              /\ Len(h) = 4 => h[4].ok
              /\ Stored("poi", k)
              /\ SameDict(poi, UpstreamPoi)
        /\ Answered =>
              /\ DOMAIN Body200.poi = {"restaurants", "bars", "cafes", "shops"}
              /\ AllNull(Body200.poi) \/ AllCounts(Body200.poi)

\* the second call for a key, after a first that raised: it issued the first
\* two sub-queries again, the third failed and no fourth was issued
C14_Witness ==
    /\ Answered
    /\ Raised("poi")
    /\ Len(HttpOf("poi")) = 3
    /\ hist["poi"][<<key[1], key[2], req.radius>>] = <<"raise", "raise">>
    /\ AllNull(Body200.poi)

----------------------------------------------------------------------------
(* Requests served from the caches, checked under Spec *)

StoredValue(src, k) ==
    cache[src][CHOOSE i \in 1..Len(cache[src]) : cache[src][i].key = k].val

GeoKey == <<key[1], key[2]>>
AreaKey == <<key[1], key[2], req.radius>>

\* the four results the request for the current cell and radius needs are
\* stored: a non-empty identity, its demographics, the POI counts and the
\* crime counts
CoveredKey ==
    /\ Stored("census_geo", GeoKey)
    /\ LET g == StoredValue("census_geo", GeoKey)
       IN  /\ DOMAIN g # {}
           /\ Stored("census_acs", <<g["state_fips"], g["county_fips"], g["tract"]>>)
    /\ Stored("poi", AreaKey)
    /\ Stored("crime", AreaKey)

\* the bundle has the stored results as its sections and no note
FromStore ==
    LET g == StoredValue("census_geo", GeoKey)
        a == StoredValue("census_acs", <<g["state_fips"], g["county_fips"], g["tract"]>>)
    IN  /\ SameDict(Body200.census, a @@ g)
        /\ SameDict(Body200.poi, StoredValue("poi", AreaKey))
        /\ Body200.crime = StoredValue("crime", AreaKey)
        /\ DOMAIN Body200.notes = {}

\* what is stored stays stored, with its value
StoreKept ==
    \A s \in Sources : \A i \in 1..Len(cache[s]) :
        \E j \in 1..Len(cache'[s]) : cache'[s][j] = cache[s][i]

\* a step of a request whose four results are stored calls no upstream and
\* leaves the limiters and the clock alone
NoUpstream ==
    /\ limiter' = limiter
    /\ now' = now
    /\ \A i \in 1..Len(log') : log'[i].ev = "lookup" \/ i <= Len(log)

\* C17: once the four results for a cell and radius are stored, as they are
\* after a request in which the four adapters returned, they stay stored;
\* every later request for that cell and radius makes no HTTP call, leaves
\* every limiter unchanged and returns those results as its census, poi and
\* crime sections with empty notes, whatever the upstreams would answer.
C17_ServedFromCache ==
    /\ [](Answered /\ CoveredKey => FromStore)
    /\ [][ /\ StoreKept
           /\ (pc # "idle" /\ CoveredKey) => NoUpstream
         ]_vars

\* a second request for a cell and radius, all four lookups served from the
\* caches, the limiters holding the timestamps of the first
C17_Witness ==
    /\ Answered
    /\ nreq = 2
    /\ Len(log) = 4
    /\ \A i \in 1..Len(log) : log[i].ev = "lookup" /\ log[i].cached
    /\ Len(limiter["poi"]) > 0
    /\ CoveredKey /\ FromStore

----------------------------------------------------------------------------
(* Limiter slots of a request, checked under Spec *)

\* the wait() calls made on the limiter of src in the current request
WaitsOf(src) == SelectSeq(log, LAMBDA e : e.ev = "wait" /\ e.src = src)

\* src's limiter has registered the time now' behind timestamps it held
Registered(src) ==
    \E j \in 1..(Len(limiter[src]) + 1) :
        limiter'[src] = Append(SubSeq(limiter[src], j, Len(limiter[src])), now')

\* the step made one HTTP call of src, after one wait() on its limiter
OneHttp(src) ==
    /\ Len(log') = Len(log) + 2
    /\ log'[Len(log) + 1].ev = "wait" /\ log'[Len(log) + 1].src = src
    /\ log'[Len(log) + 1].at = now'
    /\ log'[Len(log) + 2].ev = "http" /\ log'[Len(log) + 2].src = src

\* a timestamp is registered with every HTTP call and at no other time
SlotPerHttp ==
    \A s \in Sources :
        /\ OneHttp(s) => Registered(s)
        /\ limiter'[s] # limiter[s] => OneHttp(s)

\* the slots the adapters of the current request have taken
SlotsTaken ==
    \A s \in Sources :
        LET h == HttpOf(s)
            w == WaitsOf(s)
        IN  /\ Len(w) = Len(h)
            /\ (Returned(s) /\ Len(h) > 0) => Len(w) = HttpCalls[s]
            /\ (Raised(s) /\ Len(h) > 0 /\ ~h[Len(h)].ok) => Len(w) = h[Len(h)].n
            /\ \A i \in 1..Len(w) :
                  i + LimiterCalls[s] <= Len(w) =>
                      w[i + LimiterCalls[s]].at - w[i].at >= LimiterPeriod[s]

\* C18: a limiter registers one timestamp with each HTTP call: four for a
\* POI miss that returns, two for a Crime miss that returns, k for a miss
\* whose k-th HTTP call fails; a POI miss that returns has its third slot,
\* and so its end, at least one period after its first.
C18_SlotPerHttpCall ==
    /\ [](SlotsTaken /\ HttpCalls["poi"] = 4 /\ HttpCalls["crime"] = 2)
    /\ [](Returned("poi") /\ Len(WaitsOf("poi")) > 0 =>
              now - WaitsOf("poi")[1].at >= LimiterPeriod["poi"])
    /\ [][SlotPerHttp]_vars

\* a request whose POI miss returned after four slots, the clock one period
\* on, and whose Crime miss failed at its second call
C18_Witness ==
    /\ Answered
    /\ Returned("poi") /\ Len(WaitsOf("poi")) = 4
    /\ WaitsOf("poi")[3].at = WaitsOf("poi")[1].at + LimiterPeriod["poi"]
    /\ Raised("crime") /\ Len(WaitsOf("crime")) = 2

----------------------------------------------------------------------------
(* The empty identity in the Geocode cache, checked under Spec *)

\* census_geographies returned {} for the current cell and that is stored
EmptyStored ==
    /\ Stored("census_geo", GeoKey)
    /\ DOMAIN StoredValue("census_geo", GeoKey) = {}

\* how the calls of census_geographies for the current cell ended, in order
GeoCalls == IF GeoKey \in DOMAIN hist["census_geo"] THEN hist["census_geo"][GeoKey] ELSE << >>

\* the current request got the stored empty identity from the cache
EmptyFromStore ==
    /\ EmptyStored
    /\ "census_geo" \in DOMAIN ret
    /\ GeoCalls[Len(GeoCalls)] = "hit"

\* C19: an empty identity that census_geographies returned is stored and
\* stays stored; a later request for the cell gets it from the cache, with
\* no Geocode HTTP call, no Demographics call and neither a census_geo nor a
\* census_acs note, though the upstream may by now answer with an identity;
\* after a call that raised nothing is stored and the next call makes the
\* HTTP call again.
C19_EmptyIdentityMemoized ==
    /\ [](EmptyFromStore =>
              /\ EventsOf("census_geo") # {}
              /\ \A i \in EventsOf("census_geo") : log[i].ev = "lookup" /\ log[i].cached
              /\ EventsOf("census_acs") = {}
              /\ "census_acs" \notin DOMAIN ret
              /\ pc # "census_acs"
              /\ DOMAIN geo = {} /\ DOMAIN census = {}
              /\ "census_geo" \notin DOMAIN notes
              /\ "census_acs" \notin DOMAIN notes)
    /\ [](\A i \in 1..Len(GeoCalls) :
              /\ GeoCalls[i] = "ok" => Stored("census_geo", GeoKey)
              /\ (GeoCalls[i] = "ok" /\ i < Len(GeoCalls)) => GeoCalls[i + 1] = "hit"
              /\ (GeoCalls[i] = "raise" /\ i < Len(GeoCalls)) => GeoCalls[i + 1] \in {"raise", "ok"}
              /\ (GeoCalls[i] = "raise" /\ i = Len(GeoCalls)) => ~Stored("census_geo", GeoKey))
    /\ [][ /\ (EmptyStored /\ GeoKey' = GeoKey) => EmptyStored'
           /\ (EmptyStored /\ pc = "census_geo") =>
                  (pc' = "poi" /\ limiter' = limiter /\ EmptyFromStore')
           /\ (pc = "census_geo" /\ step = 0 /\ ~Stored("census_geo", GeoKey)) =>
                  (pc' = "census_geo" /\ step' = 1)
         ]_vars

\* the second request for a cell the geocoder had placed in no tract
C19_Witness ==
    /\ Answered
    /\ GeoCalls = <<"ok", "hit">>
    /\ EmptyFromStore
    /\ DOMAIN Body200.census = {}
    /\ DOMAIN Body200.notes \cap {"census_geo", "census_acs"} = {}

----------------------------------------------------------------------------
(* crime_counts after its two calls of request_json returned: the body    *)
(* called on its own with the two answers of the upstream                  *)

MaxGroups == 3

\* CRIME_TYPE of a group of the grouped answer: null, empty, or a label
CrimeLabels == {None, <<"">>, <<"ROBBERY">>, <<"LARCENY">>}
CrimeCts == {1, 2}

Group(l, n) == [attributes |-> [CRIME_TYPE |-> l, ct |-> Num(n)]]

\* the grouped answers: groupByFieldsForStatistics gives one group for each
\* distinct value of CRIME_TYPE
GroupedAnswers ==
    LET Groups == {Group(l, n) : l \in CrimeLabels, n \in CrimeCts}
    IN  {g \in UNION {[1..n -> Groups] : n \in 0..MaxGroups} :
            \A i, j \in 1..Len(g) :
                i # j => g[i].attributes.CRIME_TYPE # g[j].attributes.CRIME_TYPE}

RECURSIVE SumCt(_)
\* the records counted by the groups feats
SumCt(feats) ==
    IF Len(feats) = 0 THEN 0 ELSE feats[1].attributes.ct[1] + SumCt(Tail(feats))

\* the count-only answers to go with the grouped answer g: the number of
\* records g counts, or an answer without count
CountAnswers(g) == {[count |-> Num(SumCt(g))], EmptyDict}

InitCrime ==
    /\ now = 0
    /\ limiter = [s \in Sources |-> << >>]
    /\ InitRequest
    /\ InitThreads
    /\ lut = "crime"
    /\ out = << >>
    /\ arg \in UNION {{[total_data |-> t, by_data |-> [features |-> g]] :
                            t \in CountAnswers(g)} : g \in GroupedAnswers}

\* total = int(total_data.get("count") or 0) ... return {...}
crime_counts_body ==
    /\ out = << >>
    /\ out' = <<crime_counts_result(crime_total(arg.total_data), arg.by_data)>>
    /\ UNCHANGED <<now, limiter, cache, reqVars, limVars, arg>>

NextCrime == crime_counts_body

SpecCrime == InitCrime /\ [][NextCrime]_vars

RECURSIVE SumValues(_, _)
\* the sum of the values of by_type under the keys ks
SumValues(by_type, ks) ==
    IF ks = {} THEN 0
    ELSE LET k == CHOOSE x \in ks : TRUE
         IN  by_type[k][1] + SumValues(by_type, ks \ {k})

Unlabeled(f) == f.attributes.CRIME_TYPE \in {None, <<"">>}

\* C11: when the count-only answer is the number of records the grouped
\* answer counts, total_last_3mo is the sum of the values of by_type.
C11_TotalIsSumOfTypes ==
    ( /\ Len(out) = 1
      /\ "count" \in DOMAIN arg.total_data
      /\ arg.total_data.count = Num(SumCt(arg.by_data.features)) ) =>
        out[1].total_last_3mo[1] = SumValues(out[1].by_type, DOMAIN out[1].by_type)

\* C15: by_type["UNKNOWN"] is the sum of the counts of the groups without a
\* label, every labeled group's count stands under its label, and the values
\* of by_type add up to the counts of all groups.
C15_UnknownBucketLossless ==
    Len(out) = 1 =>
        LET feats == arg.by_data.features
            by_type == out[1].by_type
            unl == SelectSeq(feats, Unlabeled)
        IN  /\ Len(unl) > 0 =>
                  /\ "UNKNOWN" \in DOMAIN by_type
                  /\ by_type["UNKNOWN"][1] = SumCt(unl)
            /\ \A i \in 1..Len(feats) :
                  ~Unlabeled(feats[i]) =>
                      /\ feats[i].attributes.CRIME_TYPE[1] \in DOMAIN by_type
                      /\ by_type[feats[i].attributes.CRIME_TYPE[1]] = feats[i].attributes.ct
            /\ SumValues(by_type, DOMAIN by_type) = SumCt(feats)

----------------------------------------------------------------------------
(* _round_key called on its own, on two coordinates and on its own result *)

MaxOffset == 6

\* latitudes around the grid point 39.290, up to the middle of the next cells;
\* a longitude inside a cell and one on the boundary of two
KeyLats == (392900 - MaxOffset)..(392900 + MaxOffset)
KeyLons == {-766122, -766125}

InitKey ==
    /\ now = 0
    /\ limiter = [s \in Sources |-> << >>]
    /\ InitRequest
    /\ InitThreads
    /\ lut = "poi"
    /\ out = << >>
    /\ arg \in (KeyLats \X KeyLons) \X (KeyLats \X KeyLons)

\* _round_key(lat, lon, 3) for the first coordinate
round_key_first ==
    /\ Len(out) = 0
    /\ out' = <<_round_key(arg[1][1], arg[1][2], 3)>>
    /\ UNCHANGED <<now, limiter, cache, reqVars, limVars, arg>>

\* _round_key(lat, lon, 3) for the second coordinate
round_key_second ==
    /\ Len(out) = 1
    /\ out' = Append(out, _round_key(arg[2][1], arg[2][2], 3))
    /\ UNCHANGED <<now, limiter, cache, reqVars, limVars, arg>>

\* _round_key applied to the key the first call returned
round_key_of_key ==
    /\ Len(out) = 2
    /\ out' = Append(out, _round_key(out[1][1], out[1][2], 3))
    /\ UNCHANGED <<now, limiter, cache, reqVars, limVars, arg>>

\* _round_key(lat, lon, 3) for the first coordinate, once more
round_key_repeat ==
    /\ Len(out) = 3
    /\ out' = Append(out, _round_key(arg[1][1], arg[1][2], 3))
    /\ UNCHANGED <<now, limiter, cache, reqVars, limVars, arg>>

NextKey ==
    \/ round_key_first
    \/ round_key_second
    \/ round_key_of_key
    \/ round_key_repeat

SpecKey == InitKey /\ [][NextKey]_vars

Dist(a, b) == IF a < b THEN b - a ELSE a - b

\* C12: _round_key of a key it returned is that key, equal inputs give equal
\* keys, and no call touches a limiter, a cache or the clock.
C12_QuantizeIdempotent ==
    /\ Len(out) >= 3 => out[3] = out[1]
    /\ Len(out) >= 4 => out[4] = out[1]
    /\ (Len(out) >= 2 /\ arg[1] = arg[2]) => out[2] = out[1]
    /\ \A s \in Sources : limiter[s] = << >> /\ cache[s] = << >>
    /\ now = 0

\* a latitude on the boundary of two cells, quantized, its key quantized
\* again and the call repeated
C12_Witness ==
    /\ Len(out) = 4
    /\ arg[1] = <<392905, -766125>>
    /\ out[1] = <<392910, -766120>>

\* C13 as stated: two coordinates no more than 0.0005 degrees apart in both
\* axes get the same key.
C13_NearbySameKey ==
    ( /\ Len(out) >= 2
      /\ Dist(arg[1][1], arg[2][1]) <= 5
      /\ Dist(arg[1][2], arg[2][2]) <= 5 ) => out[1] = out[2]

\* the multiples of 0.001 degrees that x is less than 0.0005 degrees from
NearGrid(x) == {g \in (x - 4)..(x + 4) : g % 10 = 0}

\* C13, amended: two coordinates that are both less than 0.0005 degrees, in
\* both axes, from one multiple of 0.001 degrees get the same key, which is
\* that multiple.
C13_SameCellSameKey ==
    Len(out) >= 2 =>
        \A a \in NearGrid(arg[1][1]) \cap NearGrid(arg[2][1]) :
            \A b \in NearGrid(arg[1][2]) \cap NearGrid(arg[2][2]) :
                out[1] = <<a, b>> /\ out[2] = <<a, b>>

\* 39.2896 and 39.2904, 0.0008 degrees apart on the two sides of 39.290
C13_Witness ==
    /\ Len(out) >= 2
    /\ arg[1] = <<392896, -766122>>
    /\ arg[2] = <<392904, -766122>>
    /\ out[1] = <<392900, -766120>>
    /\ out[2] = out[1]

----------------------------------------------------------------------------
(* RateLimiter.wait() called by one caller, statement by statement: time   *)
(* passes while it runs, the caller goes on running and a sleep ends       *)

\* wait() is entered while the clock of the model still has one period to go
one_caller_enters ==
    /\ now + LimiterPeriod[lut] <= MaxTime
    /\ wait_now(1)

\* the caller executes its next statement inside wait()
one_caller_runs ==
    \/ wait_filter(1)
    \/ wait_assign(1)
    \/ wait_test(1)
    \/ wait_sleep(1)
    \/ wait_append(1)

NextOneCaller ==
    \/ ThreadTick
    \/ one_caller_enters
    \/ one_caller_runs

SpecOneCaller ==
    /\ InitThreaded
    /\ [][NextOneCaller]_vars
    /\ WF_vars(one_caller_runs)
    /\ WF_vars(ThreadTick)

\* the statements of wait() done one after another by the one caller
C16_Statements ==
    LET N == LimiterCalls[lut]
        T == LimiterPeriod[lut]
        ts == limiter[lut]
    IN  /\ (tpc[1] = "test" /\ Len(ts) < N) => tpc'[1] \in {"test", "append"}
        /\ (tpc[1] = "test" /\ Len(ts) >= N) =>
              /\ tpc'[1] \in {"test", "sleep"}
              /\ tpc'[1] = "sleep" =>
                    /\ twake'[1] = ts[1] + T
                    /\ twake'[1] - tnow[1] <= T
                    /\ twake'[1] - tnow[1] > 0
        /\ (tpc[1] = "sleep" /\ tpc'[1] # "sleep") =>
              /\ tpc'[1] = "append"
              /\ now >= twake[1]
        /\ (tpc[1] = "append" /\ tpc'[1] # "append") =>
              /\ tpc'[1] = "out"
              /\ acquired' = Append(acquired, now)
              /\ limiter'[lut] = Append(ts, now)

====
